---- MODULE Spec2Model ----
(***************************************************************************)
(* keydance: a key dancing game implemented as a Linux kernel module.      *)
(*                                                                         *)
(* The model follows src/keydance.c.  The shared game state is the set of  *)
(* file-scope variables of the module (lock_state, game_running, extras,   *)
(* misses, hits, level), the spinlock keydance_lock and the dynamic timer  *)
(* keydance_timer.  Each execution context of the module is a process with *)
(* a program counter:                                                      *)
(*   - the timer callback keydance_timerfn               (tpc)             *)
(*   - the hard interrupt handler keydance_interrupt     (one step)        *)
(*   - the irq thread keydance_threadfn                  (kpc)             *)
(*   - processes writing /proc/keydance-start            (wpc[w])          *)
(*   - a process reading /proc/keydance-result           (rpc)             *)
(*   - the module unload keydance_exit                   (xpc)             *)
(*   - the module load keydance_init with led_test       (ipc)             *)
(*   - the call of i8042_led_blink made by led_test      (bpc)             *)
(* The functions that take no lock (write_keydance_start,                  *)
(* keydance_result_proc_show, keydance_exit) are modelled one access to    *)
(* the shared state at a time, in the order of the source.  The two        *)
(* functions that run under keydance_lock are modelled twice: the actions  *)
(* keydance_timerfn and keydance_threadfn run one call from spin_lock to   *)
(* spin_unlock in a single step, and the actions Timer... and Thread...    *)
(* are the same calls one access at a time, for the specifications in      *)
(* which a context without the lock can run in between.                    *)
(***************************************************************************)
EXTENDS Integers, Sequences, FiniteSets, TLC

\* ------------------------------------------------------------- constants

HITS_PER_LEVEL == 10
MISSES_TO_STOP == 10
LEVEL_TO_STOP == 10

\* lock_state &= 0x07
LED_MASK == 7

\* DELAY gives up when ++delay > 10
DELAY_LIMIT == 10

\* led_test: delay = 200 and for (total = 0; total < 1200; )
LED_TEST_DELAY == 200
LED_TEST_TOTAL == 1200

\* return -ENOMEM;
ENOMEM == 12

\* what request_threaded_irq may return: 0, -EBUSY, -EINVAL
IrqResults == {0, -16, -22}

\* static const char dancekey_scancode_table[3] = { 4, 2, 3 };
dancekey_scancode_table == <<4, 2, 3>>

\* --------------------------------------------------------------- bounds

\* get_random_bytes() delivers a byte in 0..MaxByte
MaxByte == 8
\* key presses that count in extras are delivered only while extras < MaxExtras
MaxExtras == 1
\* a write to /proc/keydance-start carries 0..MaxCount bytes
MaxCount == 1
\* timer expiries allowed in SpecStatus
MaxTicks == 11
\* timer expiries allowed in SpecRace
RaceTicks == 2
\* timer expiries allowed in SpecKeys
KeyTicks == 10

\* ----------------------------------------------------------------- sets

Writers == {1, 2}

\* scancodes the keyboard controller may deliver: the three dance keys, another
\* key (5 is the make code of key 4) and a break code (132 = 0x84, key 3 released)
ScanCodes == {2, 3, 4, 5, 132}

Bytes == 0..MaxByte

VARIABLES
    lock_state,      \* unsigned char lock_state: the lit LEDs still to be hit
    game_running,    \* bool game_running
    extras,          \* int extras
    misses,          \* int misses
    hits,            \* int hits
    level,           \* int level
    keydance_lock,   \* holder of spinlock keydance_lock: "free", "timer", "thread"
    keydance_timer,  \* TRUE when keydance_timer is pending
    led_cmd,         \* the state last passed to i8042_led_blink
    tpc,             \* position of keydance_timerfn
    old_state,       \* local old_state of keydance_timerfn
    irq_wake,        \* IRQ_WAKE_THREAD returned and the thread not yet started
    kpc,             \* position of keydance_threadfn
    scancode,        \* local scancode of keydance_threadfn
    wpc,             \* position of each writer of /proc/keydance-start
    wcount,          \* count argument / return value of each write in progress
    rpc,             \* position of the reader of /proc/keydance-result
    snap,            \* what keydance_result_proc_show has printed so far
    xpc,             \* position of keydance_exit
    rfresh,          \* the read in progress began in a fresh session, no expiry since
    ticks,           \* timer expiries so far, in the specifications that bound them
    fresh,           \* a write armed the timer and the timer has not expired since
    ipc,             \* position of keydance_init
    held,            \* what keydance_init has acquired and not released, in order
    init_ret,        \* the value keydance_init returns
    total,           \* local total of led_test
    state,           \* local state of led_test, the argument of i8042_led_blink
    bpc,             \* position of i8042_led_blink
    delay,           \* local delay of i8042_led_blink
    mdelays,         \* calls of mdelay(1) made by the call of i8042_led_blink
    blink_ret        \* the value i8042_led_blink returns

vars == <<lock_state, game_running, extras, misses, hits, level, keydance_lock,
          keydance_timer, led_cmd, tpc, old_state, irq_wake, kpc, scancode,
          wpc, wcount, rpc, snap, xpc, rfresh, ticks, fresh,
          ipc, held, init_ret, total, state, bpc, delay, mdelays, blink_ret>>

\* keydance_init, led_test and the call of i8042_led_blink made by led_test
boot_vars == <<ipc, held, init_ret, total, state, bpc, delay, mdelays, blink_ret>>
init_vars == <<ipc, held, init_ret, total, state>>
blink_vars == <<bpc, delay, mdelays, blink_ret>>

\* the module state and every context that runs once keydance_init has returned
game_vars == <<lock_state, game_running, extras, misses, hits, level, keydance_lock,
               keydance_timer, tpc, old_state, irq_wake, kpc, scancode,
               wpc, wcount, rpc, snap, xpc, rfresh, ticks, fresh>>

stats == <<lock_state, game_running, extras, misses, hits, level>>
timer_vars == <<tpc, old_state>>
thread_vars == <<irq_wake, kpc, scancode>>
writer_vars == <<wpc, wcount>>
reader_vars == <<rpc, snap, rfresh>>

\* ------------------------------------------------------------- helpers

\* bit i of a byte
BitSet(b, i) == (b \div (2 ^ i)) % 2 = 1

\* b & ~(1 << i)
ClearBit(b, i) == IF BitSet(b, i) THEN b - 2 ^ i ELSE b

\* b & 0x07
MaskLeds(b) == b % (LED_MASK + 1)

\* for (i=0; i<3; i++) if (scancode == dancekey_scancode_table[i]) break;
\* the value of i after the loop: 0..2 for a dance key, 3 otherwise
RECURSIVE FindKey(_, _)
FindKey(sc, i) ==
    IF i < 3
    THEN IF sc = dancekey_scancode_table[i + 1] THEN i ELSE FindKey(sc, i + 1)
    ELSE i

KeyIndex(sc) == FindKey(sc, 0)

\* jiffies per second of the kernel build
HZ == 250

\* static int step_time(int level): C division truncates toward zero
step_time(l) ==
    LET n == HZ * (20 - 2 * l)
    IN  IF n >= 0 THEN n \div 10 ELSE -((-n) \div 10)

\* jiffies_to_msecs(j) for an HZ that divides 1000
jiffies_to_msecs(j) == (1000 \div HZ) * j

\* the fields keydance_result_proc_show prints, none read yet
NoSnap == [running |-> "none", level |-> -1, step |-> -1, hits |-> -1, misses |-> -1]

\* ---------------------------------------------------------------- Init

\* the static initial values of the module state, with no context running
StaticInit ==
    /\ lock_state = 0
    /\ game_running = FALSE
    /\ extras = 0
    /\ misses = 0
    /\ hits = 0
    /\ level = 0
    /\ keydance_lock = "free"
    /\ keydance_timer = FALSE
    /\ tpc = "t_idle"
    /\ old_state = 0
    /\ irq_wake = FALSE
    /\ kpc = "k_idle"
    /\ scancode = 0
    /\ wpc = [w \in Writers |-> "w_idle"]
    /\ wcount = [w \in Writers |-> 0]
    /\ rpc = "r_idle"
    /\ snap = NoSnap
    /\ xpc = "x_idle"
    /\ rfresh = FALSE
    /\ ticks = 0
    /\ fresh = FALSE

\* no call of i8042_led_blink in progress
BlinkIdle ==
    /\ bpc = "b_idle"
    /\ delay = 0
    /\ mdelays = 0
    /\ blink_ret = 0

\* the module loaded: keydance_init has returned 0
Init ==
    /\ StaticInit
    /\ led_cmd = 0
    /\ BlinkIdle
    /\ ipc = "i_ret"
    /\ held = <<"irq", "start", "result">>
    /\ init_ret = 0
    /\ total = 0
    /\ state = 0

\* insmod: keydance_init is called
InitBoot ==
    /\ StaticInit
    /\ led_cmd = 0
    /\ BlinkIdle
    /\ ipc = "i_irq"
    /\ held = <<>>
    /\ init_ret = 0
    /\ total = 0
    /\ state = 0

\* --------------------------------------- what keydance_exit has undone

\* /proc/keydance-result exists until remove_proc_entry(keydance_result_fname)
ResultEntry == xpc \in {"x_idle", "x_del", "x_blink", "x_result"}

\* /proc/keydance-start exists until remove_proc_entry(keydance_start_fname)
StartEntry == xpc \in {"x_idle", "x_del", "x_blink", "x_result", "x_start"}

\* the handler and its thread are registered until free_irq()
IrqRegistered == xpc # "x_done"

\* ------------------------------------------------- keydance_timerfn

\* the timer expires and the kernel calls keydance_timerfn.  The shortest
\* interval, step_time(9) = 200 ms, is far longer than one run of the callback,
\* so a new expiry finds the previous run finished (tpc = "t_idle").
TimerExpiry ==
    /\ keydance_timer
    /\ tpc = "t_idle"
    /\ keydance_timer' = FALSE
    /\ tpc' = "t_lock"
    /\ fresh' = FALSE
    /\ rfresh' = FALSE
    /\ UNCHANGED <<boot_vars, xpc, stats, keydance_lock, led_cmd, old_state, thread_vars,
                   writer_vars, rpc, snap>>

TimerExpire == TimerExpiry /\ UNCHANGED ticks

TimerExpireBounded == ticks < RaceTicks /\ TimerExpiry /\ ticks' = ticks + 1

TimerExpireKeys == ticks < KeyTicks /\ TimerExpiry /\ ticks' = ticks + 1

\* the callback goes on without waiting for keydance_lock
TimerLock_mut ==
    /\ tpc = "t_lock"
    /\ keydance_lock' = "timer"
    /\ tpc' = IF game_running THEN "t_draw" ELSE "t_stop"
    /\ UNCHANGED <<boot_vars, xpc, stats, keydance_timer, led_cmd, old_state, thread_vars,
                   writer_vars, reader_vars, ticks, fresh>>

\* spin_lock(&keydance_lock); if (!game_running) goto stop;
TimerLock ==
    /\ tpc = "t_lock"
    /\ keydance_lock = "free"
    /\ keydance_lock' = "timer"
    /\ tpc' = IF game_running THEN "t_draw" ELSE "t_stop"
    /\ UNCHANGED <<boot_vars, xpc, stats, keydance_timer, led_cmd, old_state, thread_vars,
                   writer_vars, reader_vars, ticks, fresh>>

\* old_state = lock_state; get_random_bytes(&lock_state, 1); lock_state &= 0x07;
TimerDraw ==
    /\ tpc = "t_draw"
    /\ \E b \in Bytes :
        /\ old_state' = lock_state
        /\ lock_state' = MaskLeds(b)
    /\ tpc' = "t_score"
    /\ UNCHANGED <<boot_vars, xpc, game_running, extras, misses, hits, level, keydance_lock,
                   keydance_timer, led_cmd, thread_vars, writer_vars,
                   reader_vars, ticks, fresh>>

\* a miss that is not counted
ScoreMiss_mut(m) == m

\* misses++
ScoreMiss(m) == m + 1

\* a hit that is not counted
ScoreHit_mut(h) == h

\* hits++
ScoreHit(h) == h + 1

\* the round is judged on extras alone
Missed_mut(old, ex) == ex # 0

\* if (old_state || extras)
Missed(old, ex) == old # 0 \/ ex # 0

\* misses++ or hits++; old_state is not read again and is cleared
TimerScore ==
    /\ tpc = "t_score"
    /\ IF Missed(old_state, extras)
       THEN /\ misses' = ScoreMiss(misses)
            /\ tpc' = "t_misses"
            /\ UNCHANGED hits
       ELSE /\ hits' = ScoreHit(hits)
            /\ tpc' = "t_level"
            /\ UNCHANGED misses
    /\ old_state' = 0
    /\ UNCHANGED <<boot_vars, xpc, lock_state, game_running, extras, level, keydance_lock,
                   keydance_timer, led_cmd, thread_vars, writer_vars,
                   reader_vars, ticks, fresh>>

\* if (misses >= MISSES_TO_STOP) goto stop;
TimerMissCheck ==
    /\ tpc = "t_misses"
    /\ tpc' = IF misses >= MISSES_TO_STOP THEN "t_stop" ELSE "t_extras"
    /\ UNCHANGED <<boot_vars, xpc, stats, keydance_lock, keydance_timer, led_cmd, old_state,
                   thread_vars, writer_vars, reader_vars, ticks, fresh>>

\* a level that takes one hit more
LevelOf_mut(h) == h \div (HITS_PER_LEVEL + 1)

\* hits / HITS_PER_LEVEL
LevelOf(h) == h \div HITS_PER_LEVEL

\* level = hits / HITS_PER_LEVEL;
TimerLevel ==
    /\ tpc = "t_level"
    /\ level' = LevelOf(hits)
    /\ tpc' = "t_levelchk"
    /\ UNCHANGED <<boot_vars, xpc, lock_state, game_running, extras, misses, hits, keydance_lock,
                   keydance_timer, led_cmd, old_state, thread_vars, writer_vars,
                   reader_vars, ticks, fresh>>

\* if (level >= LEVEL_TO_STOP) goto stop;
TimerLevelCheck ==
    /\ tpc = "t_levelchk"
    /\ tpc' = IF level >= LEVEL_TO_STOP THEN "t_stop" ELSE "t_extras"
    /\ UNCHANGED <<boot_vars, xpc, stats, keydance_lock, keydance_timer, led_cmd, old_state,
                   thread_vars, writer_vars, reader_vars, ticks, fresh>>

\* extras = 0;
TimerExtras ==
    /\ tpc = "t_extras"
    /\ extras' = 0
    /\ tpc' = "t_blink"
    /\ UNCHANGED <<boot_vars, xpc, lock_state, game_running, misses, hits, level, keydance_lock,
                   keydance_timer, led_cmd, old_state, thread_vars, writer_vars,
                   reader_vars, ticks, fresh>>

\* i8042_led_blink(lock_state);
TimerBlink ==
    /\ tpc = "t_blink"
    /\ led_cmd' = lock_state
    /\ tpc' = "t_arm"
    /\ UNCHANGED <<boot_vars, xpc, stats, keydance_lock, keydance_timer, old_state, thread_vars,
                   writer_vars, reader_vars, ticks, fresh>>

\* mod_timer(&keydance_timer, jiffies + step_time(level)); spin_unlock(); return;
TimerArm ==
    /\ tpc = "t_arm"
    /\ keydance_timer' = TRUE
    /\ keydance_lock' = "free"
    /\ tpc' = "t_idle"
    /\ UNCHANGED <<boot_vars, xpc, stats, led_cmd, old_state, thread_vars, writer_vars,
                   reader_vars, ticks, fresh>>

\* stop: game_running = false;
TimerStop ==
    /\ tpc = "t_stop"
    /\ game_running' = FALSE
    /\ tpc' = "t_stopblink"
    /\ UNCHANGED <<boot_vars, xpc, lock_state, extras, misses, hits, level, keydance_lock,
                   keydance_timer, led_cmd, old_state, thread_vars, writer_vars,
                   reader_vars, ticks, fresh>>

\* i8042_led_blink(0); spin_unlock_irq(&keydance_lock); return;
TimerStopBlink ==
    /\ tpc = "t_stopblink"
    /\ led_cmd' = 0
    /\ keydance_lock' = "free"
    /\ tpc' = "t_idle"
    /\ UNCHANGED <<boot_vars, xpc, stats, keydance_timer, old_state, thread_vars, writer_vars,
                   reader_vars, ticks, fresh>>

\* the steps of keydance_timerfn once it has been called
TimerBody ==
    \/ TimerLock
    \/ TimerDraw
    \/ TimerScore
    \/ TimerMissCheck
    \/ TimerLevel
    \/ TimerLevelCheck
    \/ TimerExtras
    \/ TimerBlink
    \/ TimerArm
    \/ TimerStop
    \/ TimerStopBlink

\* ------------------------------------- keydance_interrupt, keydance_threadfn

\* a keyboard interrupt: if (!game_running) return IRQ_NONE; return IRQ_WAKE_THREAD;
keydance_interrupt ==
    /\ IrqRegistered
    /\ irq_wake' = (IF game_running THEN TRUE ELSE irq_wake)
    /\ UNCHANGED <<boot_vars, xpc, stats, keydance_lock, keydance_timer, led_cmd, timer_vars,
                   kpc, scancode, writer_vars, reader_vars, ticks, fresh>>

\* the thread does not test game_running again
ThreadLock_mut ==
    /\ irq_wake
    /\ kpc = "k_idle"
    /\ keydance_lock = "free"
    /\ irq_wake' = FALSE
    /\ keydance_lock' = "thread"
    /\ kpc' = "k_read"
    /\ UNCHANGED <<boot_vars, xpc, stats, keydance_timer, led_cmd, timer_vars, scancode,
                   writer_vars, reader_vars, ticks, fresh>>

\* spin_lock_irq(&keydance_lock); if (!game_running) goto end;
ThreadLock ==
    /\ irq_wake
    /\ kpc = "k_idle"
    /\ keydance_lock = "free"
    /\ irq_wake' = FALSE
    /\ keydance_lock' = "thread"
    /\ kpc' = IF game_running THEN "k_read" ELSE "k_end"
    /\ UNCHANGED <<boot_vars, xpc, stats, keydance_timer, led_cmd, timer_vars, scancode,
                   writer_vars, reader_vars, ticks, fresh>>

\* an extra press that is not counted
CountExtra_mut(ex) == ex

\* extras++
CountExtra(ex) == ex + 1

\* the press counts in extras: a dance key whose LED is not lit
IsExtra(sc, ls) == KeyIndex(sc) < 3 /\ ~BitSet(ls, KeyIndex(sc))

\* scancode = i8042_read_data();
ThreadRead ==
    /\ kpc = "k_read"
    /\ \E sc \in ScanCodes :
        /\ IsExtra(sc, lock_state) => extras < MaxExtras
        /\ scancode' = sc
    /\ kpc' = "k_key"
    /\ UNCHANGED <<boot_vars, xpc, stats, keydance_lock, keydance_timer, led_cmd, timer_vars,
                   irq_wake, writer_vars, reader_vars, ticks, fresh>>

\* the loop over dancekey_scancode_table and if (i<3) { ... }
ThreadKey ==
    /\ kpc = "k_key"
    /\ LET i == KeyIndex(scancode)
       IN  IF i < 3
           THEN IF BitSet(lock_state, i)
                THEN /\ lock_state' = ClearBit(lock_state, i)
                     /\ kpc' = "k_blink"
                     /\ UNCHANGED extras
                ELSE /\ extras' = CountExtra(extras)
                     /\ kpc' = "k_end"
                     /\ UNCHANGED lock_state
           ELSE /\ kpc' = "k_end"
                /\ UNCHANGED <<lock_state, extras>>
    /\ UNCHANGED <<boot_vars, xpc, game_running, misses, hits, level, keydance_lock,
                   keydance_timer, led_cmd, timer_vars, irq_wake, scancode,
                   writer_vars, reader_vars, ticks, fresh>>

\* i8042_led_blink(lock_state);
ThreadBlink ==
    /\ kpc = "k_blink"
    /\ led_cmd' = lock_state
    /\ kpc' = "k_end"
    /\ UNCHANGED <<boot_vars, xpc, stats, keydance_lock, keydance_timer, timer_vars, irq_wake,
                   scancode, writer_vars, reader_vars, ticks, fresh>>

\* end: spin_unlock_irq(&keydance_lock); return IRQ_HANDLED;
ThreadUnlock ==
    /\ kpc = "k_end"
    /\ keydance_lock' = "free"
    /\ kpc' = "k_idle"
    /\ scancode' = 0
    /\ UNCHANGED <<boot_vars, xpc, stats, keydance_timer, led_cmd, timer_vars, irq_wake,
                   writer_vars, reader_vars, ticks, fresh>>

\* the steps of keydance_threadfn
ThreadBody ==
    \/ ThreadLock
    \/ ThreadRead
    \/ ThreadKey
    \/ ThreadBlink
    \/ ThreadUnlock

\* ---------------------------------------------------- write_keydance_start

\* the block is entered whether or not a game is running
StartCall_mut(w) ==
    /\ StartEntry
    /\ wpc[w] = "w_idle"
    /\ \E c \in 0..MaxCount :
        /\ wcount' = [wcount EXCEPT ![w] = c]
        /\ wpc' = [wpc EXCEPT ![w] = IF c # 0 THEN "w_lock_state" ELSE "w_skip"]
    /\ UNCHANGED <<boot_vars, xpc, stats, keydance_lock, keydance_timer, led_cmd, timer_vars,
                   thread_vars, reader_vars, ticks, fresh>>

\* write(fd, buf, count): if (!game_running && count) { ... } return count;
StartCall(w) ==
    /\ StartEntry
    /\ wpc[w] = "w_idle"
    /\ \E c \in 0..MaxCount :
        /\ wcount' = [wcount EXCEPT ![w] = c]
        /\ wpc' = [wpc EXCEPT ![w] =
                     IF ~game_running /\ c # 0 THEN "w_lock_state" ELSE "w_skip"]
    /\ UNCHANGED <<boot_vars, xpc, stats, keydance_lock, keydance_timer, led_cmd, timer_vars,
                   thread_vars, reader_vars, ticks, fresh>>

\* lock_state = 0;
StartLockState(w) ==
    /\ wpc[w] = "w_lock_state"
    /\ lock_state' = 0
    /\ wpc' = [wpc EXCEPT ![w] = "w_blink"]
    /\ UNCHANGED <<boot_vars, xpc, game_running, extras, misses, hits, level, keydance_lock,
                   keydance_timer, led_cmd, timer_vars, thread_vars, wcount,
                   reader_vars, ticks, fresh>>

\* i8042_led_blink(lock_state);
StartBlink(w) ==
    /\ wpc[w] = "w_blink"
    /\ led_cmd' = lock_state
    /\ wpc' = [wpc EXCEPT ![w] = "w_extras"]
    /\ UNCHANGED <<boot_vars, xpc, stats, keydance_lock, keydance_timer, timer_vars, thread_vars,
                   wcount, reader_vars, ticks, fresh>>

\* extras = 0;
StartExtras(w) ==
    /\ wpc[w] = "w_extras"
    /\ extras' = 0
    /\ wpc' = [wpc EXCEPT ![w] = "w_misses"]
    /\ UNCHANGED <<boot_vars, xpc, lock_state, game_running, misses, hits, level, keydance_lock,
                   keydance_timer, led_cmd, timer_vars, thread_vars, wcount,
                   reader_vars, ticks, fresh>>

\* misses = 0;
StartMisses(w) ==
    /\ wpc[w] = "w_misses"
    /\ misses' = 0
    /\ wpc' = [wpc EXCEPT ![w] = "w_hits"]
    /\ UNCHANGED <<boot_vars, xpc, lock_state, game_running, extras, hits, level, keydance_lock,
                   keydance_timer, led_cmd, timer_vars, thread_vars, wcount,
                   reader_vars, ticks, fresh>>

\* hits is left as the last game set it
StartHits_mut(w) ==
    /\ wpc[w] = "w_hits"
    /\ wpc' = [wpc EXCEPT ![w] = "w_level"]
    /\ UNCHANGED <<boot_vars, xpc, stats, keydance_lock, keydance_timer, led_cmd, timer_vars,
                   thread_vars, wcount, reader_vars, ticks, fresh>>

\* hits = 0;
StartHits(w) ==
    /\ wpc[w] = "w_hits"
    /\ hits' = 0
    /\ wpc' = [wpc EXCEPT ![w] = "w_level"]
    /\ UNCHANGED <<boot_vars, xpc, lock_state, game_running, extras, misses, level, keydance_lock,
                   keydance_timer, led_cmd, timer_vars, thread_vars, wcount,
                   reader_vars, ticks, fresh>>

\* level = 0;
StartLevel(w) ==
    /\ wpc[w] = "w_level"
    /\ level' = 0
    /\ wpc' = [wpc EXCEPT ![w] = "w_running"]
    /\ UNCHANGED <<boot_vars, xpc, lock_state, game_running, extras, misses, hits, keydance_lock,
                   keydance_timer, led_cmd, timer_vars, thread_vars, wcount,
                   reader_vars, ticks, fresh>>

\* game_running = true;
StartRunning(w) ==
    /\ wpc[w] = "w_running"
    /\ game_running' = TRUE
    /\ wpc' = [wpc EXCEPT ![w] = "w_arm"]
    /\ UNCHANGED <<boot_vars, xpc, lock_state, extras, misses, hits, level, keydance_lock,
                   keydance_timer, led_cmd, timer_vars, thread_vars, wcount,
                   reader_vars, ticks, fresh>>

\* mod_timer(&keydance_timer, jiffies + step_time(level));
StartArm(w) ==
    /\ wpc[w] = "w_arm"
    /\ keydance_timer' = TRUE
    /\ fresh' = TRUE
    /\ wpc' = [wpc EXCEPT ![w] = "w_ret"]
    /\ UNCHANGED <<boot_vars, xpc, stats, keydance_lock, led_cmd, timer_vars, thread_vars, wcount,
                   reader_vars, ticks>>

\* return count; reached after the block ("w_ret") or with the block skipped
\* ("w_skip")
StartReturn(w) ==
    /\ wpc[w] \in {"w_ret", "w_skip"}
    /\ wpc' = [wpc EXCEPT ![w] = "w_idle"]
    /\ wcount' = [wcount EXCEPT ![w] = 0]
    /\ UNCHANGED <<boot_vars, xpc, stats, keydance_lock, keydance_timer, led_cmd, timer_vars,
                   thread_vars, reader_vars, ticks, fresh>>

\* one write to /proc/keydance-start by process w
write_keydance_start(w) ==
    \/ StartCall(w)
    \/ StartLockState(w)
    \/ StartBlink(w)
    \/ StartExtras(w)
    \/ StartMisses(w)
    \/ StartHits(w)
    \/ StartLevel(w)
    \/ StartRunning(w)
    \/ StartArm(w)
    \/ StartReturn(w)

\* ------------------------------------------- keydance_result_proc_show

\* if (!game_running) seq_printf(... STOPPED ...) else seq_printf(... RUNNING ...)
StatusOpen ==
    /\ ResultEntry
    /\ rpc = "r_idle"
    /\ snap' = [NoSnap EXCEPT !.running = game_running]
    /\ rfresh' = fresh
    /\ rpc' = "r_stats"
    /\ UNCHANGED <<boot_vars, xpc, stats, keydance_lock, keydance_timer, led_cmd, timer_vars,
                   thread_vars, writer_vars, ticks, fresh>>

\* the value the second seq_printf prints for argument f
StatArg(f) ==
    CASE f = "level" -> level
      [] f = "step" -> jiffies_to_msecs(step_time(level))
      [] f = "hits" -> hits
      [] f = "misses" -> misses

StatArgs == {"level", "step", "hits", "misses"}

\* one argument of the second seq_printf is evaluated; C leaves the order of
\* evaluation of the arguments to the compiler
StatusRead ==
    /\ rpc = "r_stats"
    /\ \E f \in StatArgs :
        /\ snap[f] = -1
        /\ snap' = [snap EXCEPT ![f] = StatArg(f)]
    /\ UNCHANGED <<boot_vars, xpc, stats, keydance_lock, keydance_timer, led_cmd, timer_vars,
                   thread_vars, writer_vars, rpc, rfresh, ticks, fresh>>

\* every argument has been evaluated: the text is printed
SnapComplete == rpc = "r_stats" /\ \A f \in StatArgs : snap[f] # -1

\* return 0;
StatusReturn ==
    /\ SnapComplete
    /\ rpc' = "r_idle"
    /\ snap' = NoSnap
    /\ rfresh' = FALSE
    /\ UNCHANGED <<boot_vars, xpc, stats, keydance_lock, keydance_timer, led_cmd, timer_vars,
                   thread_vars, writer_vars, ticks, fresh>>

\* one read of /proc/keydance-result
keydance_result_proc_show ==
    \/ StatusOpen
    \/ StatusRead
    \/ StatusReturn

\* ------------------------------------------------------- keydance_exit

\* game_running = false;
ExitRunning ==
    /\ xpc = "x_idle"
    /\ game_running' = FALSE
    /\ xpc' = "x_del"
    /\ UNCHANGED <<boot_vars, lock_state, extras, misses, hits, level, keydance_lock,
                   keydance_timer, led_cmd, timer_vars, thread_vars, writer_vars,
                   reader_vars, ticks, fresh>>

\* del_timer_sync(&keydance_timer): waits for a running keydance_timerfn and
\* deactivates the timer
ExitDelTimer ==
    /\ xpc = "x_del"
    /\ tpc = "t_idle"
    /\ keydance_timer' = FALSE
    /\ xpc' = "x_blink"
    /\ UNCHANGED <<boot_vars, stats, keydance_lock, led_cmd, timer_vars, thread_vars,
                   writer_vars, reader_vars, ticks, fresh>>

\* i8042_led_blink(0);
ExitBlink ==
    /\ xpc = "x_blink"
    /\ led_cmd' = 0
    /\ xpc' = "x_result"
    /\ UNCHANGED <<boot_vars, stats, keydance_lock, keydance_timer, timer_vars, thread_vars,
                   writer_vars, reader_vars, ticks, fresh>>

\* remove_proc_entry(keydance_result_fname, NULL): waits for the reads in progress
ExitRemoveResult ==
    /\ xpc = "x_result"
    /\ rpc = "r_idle"
    /\ xpc' = "x_start"
    /\ UNCHANGED <<boot_vars, stats, keydance_lock, keydance_timer, led_cmd, timer_vars,
                   thread_vars, writer_vars, reader_vars, ticks, fresh>>

\* remove_proc_entry(keydance_start_fname, NULL): waits for the writes in progress
ExitRemoveStart ==
    /\ xpc = "x_start"
    /\ \A w \in Writers : wpc[w] = "w_idle"
    /\ xpc' = "x_irq"
    /\ UNCHANGED <<boot_vars, stats, keydance_lock, keydance_timer, led_cmd, timer_vars,
                   thread_vars, writer_vars, reader_vars, ticks, fresh>>

\* free_irq(I8042_KBD_IRQ, &lock_state): waits for the handler thread
ExitFreeIrq ==
    /\ xpc = "x_irq"
    /\ kpc = "k_idle"
    /\ xpc' = "x_done"
    /\ irq_wake' = FALSE
    /\ UNCHANGED <<boot_vars, stats, keydance_lock, keydance_timer, led_cmd, timer_vars,
                   kpc, scancode, writer_vars, reader_vars, ticks, fresh>>

\* rmmod
keydance_exit ==
    \/ ExitRunning
    \/ ExitDelTimer
    \/ ExitBlink
    \/ ExitRemoveResult
    \/ ExitRemoveStart
    \/ ExitFreeIrq

\* ------------------------------------------------------ i8042_led_blink

\* DELAY that never gives up
DELAY_mut(next) ==
    /\ mdelays' = mdelays + 1
    /\ delay' = delay + 1
    /\ bpc' = next
    /\ UNCHANGED blink_ret

\* #define DELAY do { mdelay(1); if (++delay > 10) return delay; } while(0)
\* followed by the statement at position next
DELAY(next) ==
    /\ mdelays' = mdelays + 1
    /\ delay' = delay + 1
    /\ IF delay + 1 > DELAY_LIMIT
       THEN /\ bpc' = "b_ret"
            /\ blink_ret' = delay + 1
       ELSE /\ bpc' = next
            /\ UNCHANGED blink_ret

\* while (i8042_read_status() & I8042_STR_IBF) DELAY;   (first loop)
BlinkWaitCmd ==
    /\ bpc = "b_wait1"
    /\ \E ibf \in BOOLEAN :
        IF ibf
        THEN DELAY("b_wait1")
        ELSE bpc' = "b_cmd" /\ UNCHANGED <<delay, mdelays, blink_ret>>
    /\ UNCHANGED <<game_vars, led_cmd, init_vars>>

\* i8042_write_data(0xed); DELAY;
BlinkCmd ==
    /\ bpc = "b_cmd"
    /\ DELAY("b_wait2")
    /\ UNCHANGED <<game_vars, led_cmd, init_vars>>

\* while (i8042_read_status() & I8042_STR_IBF) DELAY;   (second loop)
BlinkWaitData ==
    /\ bpc = "b_wait2"
    /\ \E ibf \in BOOLEAN :
        IF ibf
        THEN DELAY("b_wait2")
        ELSE bpc' = "b_delay" /\ UNCHANGED <<delay, mdelays, blink_ret>>
    /\ UNCHANGED <<game_vars, led_cmd, init_vars>>

\* DELAY;   (after the second loop)
BlinkDelay ==
    /\ bpc = "b_delay"
    /\ DELAY("b_data")
    /\ UNCHANGED <<game_vars, led_cmd, init_vars>>

\* i8042_write_data(state); DELAY;
BlinkData ==
    /\ bpc = "b_data"
    /\ led_cmd' = state
    /\ DELAY("b_return")
    /\ UNCHANGED <<game_vars, init_vars>>

\* return delay;
BlinkReturn ==
    /\ bpc = "b_return"
    /\ blink_ret' = delay
    /\ bpc' = "b_ret"
    /\ UNCHANGED <<game_vars, led_cmd, init_vars, delay, mdelays>>

\* one call of i8042_led_blink(state), up to its return
i8042_led_blink ==
    \/ BlinkWaitCmd
    \/ BlinkCmd
    \/ BlinkWaitData
    \/ BlinkDelay
    \/ BlinkData
    \/ BlinkReturn

\* ------------------------------------------------- keydance_init, led_test

\* spin_lock_init(&keydance_lock); error = request_threaded_irq(...);
\* if (error) return error;
InitIrq ==
    /\ ipc = "i_irq"
    /\ \E error \in IrqResults :
        IF error # 0
        THEN /\ init_ret' = error
             /\ ipc' = "i_ret"
             /\ UNCHANGED held
        ELSE /\ held' = Append(held, "irq")
             /\ ipc' = "i_start"
             /\ UNCHANGED init_ret
    /\ UNCHANGED <<game_vars, led_cmd, total, state, blink_vars>>

\* entry = proc_create(keydance_start_fname, ...); if (IS_ERR_OR_NULL(entry)) goto fail1;
InitStart ==
    /\ ipc = "i_start"
    /\ \E created \in BOOLEAN :
        IF created
        THEN held' = Append(held, "start") /\ ipc' = "i_result"
        ELSE ipc' = "i_fail1" /\ UNCHANGED held
    /\ UNCHANGED <<game_vars, led_cmd, init_ret, total, state, blink_vars>>

\* entry = proc_create(keydance_result_fname, ...); if (IS_ERR_OR_NULL(entry)) goto fail2;
InitResult ==
    /\ ipc = "i_result"
    /\ \E created \in BOOLEAN :
        IF created
        THEN held' = Append(held, "result") /\ ipc' = "i_timer"
        ELSE ipc' = "i_fail2" /\ UNCHANGED held
    /\ UNCHANGED <<game_vars, led_cmd, init_ret, total, state, blink_vars>>

\* init_timer(&keydance_timer); keydance_timer.function = keydance_timerfn;
\* led_test(): int total, delay = 200; char state = 0; total = 0
InitTimer ==
    /\ ipc = "i_timer"
    /\ total' = 0
    /\ state' = 0
    /\ ipc' = "i_test"
    /\ UNCHANGED <<game_vars, led_cmd, held, init_ret, blink_vars>>

\* state ^ (I8042_LED_CAPSLOCK | I8042_LED_NUMLOCK | I8042_LED_SCROLLLOCK), for
\* a state in 0..7
ToggleLeds(b) == LED_MASK - b

\* for (...; total < 1200; ) { state ^= ...; i8042_led_blink(state) is called;
\* after the loop led_test returns and keydance_init returns 0
TestLoop ==
    /\ ipc = "i_test"
    /\ IF total < LED_TEST_TOTAL
       THEN /\ state' = ToggleLeds(state)
            /\ bpc' = "b_wait1"
            /\ delay' = 0
            /\ mdelays' = 0
            /\ ipc' = "i_blink"
            /\ UNCHANGED <<init_ret, blink_ret>>
       ELSE /\ init_ret' = 0
            /\ ipc' = "i_ret"
            /\ UNCHANGED <<state, blink_vars>>
    /\ UNCHANGED <<game_vars, led_cmd, held, total>>

\* total += i8042_led_blink(state);
TestBlinked ==
    /\ ipc = "i_blink"
    /\ bpc = "b_ret"
    /\ total' = total + blink_ret
    /\ bpc' = "b_idle"
    /\ ipc' = "i_sleep"
    /\ UNCHANGED <<game_vars, led_cmd, held, init_ret, state, delay, mdelays, blink_ret>>

\* msleep(delay); total += delay;
TestSleep ==
    /\ ipc = "i_sleep"
    /\ total' = total + LED_TEST_DELAY
    /\ ipc' = "i_test"
    /\ UNCHANGED <<game_vars, led_cmd, held, init_ret, state, blink_vars>>

\* flashing all 3 LEDs
led_test ==
    \/ TestLoop
    \/ TestBlinked
    \/ TestSleep

\* fail2: remove_proc_entry(keydance_start_fname, NULL);
InitFail2 ==
    /\ ipc = "i_fail2"
    /\ held' = SelectSeq(held, LAMBDA r : r # "start")
    /\ ipc' = "i_fail1"
    /\ UNCHANGED <<game_vars, led_cmd, init_ret, total, state, blink_vars>>

\* fail1: return -ENOMEM;
InitFail1 ==
    /\ ipc = "i_fail1"
    /\ init_ret' = -ENOMEM
    /\ ipc' = "i_ret"
    /\ UNCHANGED <<game_vars, led_cmd, held, total, state, blink_vars>>

\* insmod
keydance_init ==
    \/ InitIrq
    \/ InitStart
    \/ InitResult
    \/ InitTimer
    \/ InitFail2
    \/ InitFail1

\* ------------------------------------------ whole calls, in one step each

\* no call is in progress
Quiet ==
    /\ tpc = "t_idle"
    /\ kpc = "k_idle"
    /\ keydance_lock = "free"

\* keydance_timerfn with get_random_bytes delivering b: [stop, lock_state,
\* misses, hits, level] at the return
TimerOutcome(b) ==
    LET new == MaskLeds(b)
        m == ScoreMiss(misses)
        h == ScoreHit(hits)
    IN  IF ~game_running
        THEN [stop |-> TRUE, lock_state |-> lock_state, misses |-> misses,
              hits |-> hits, level |-> level]
        ELSE IF Missed(lock_state, extras)
        THEN [stop |-> m >= MISSES_TO_STOP, lock_state |-> new, misses |-> m,
              hits |-> hits, level |-> level]
        ELSE [stop |-> LevelOf(h) >= LEVEL_TO_STOP, lock_state |-> new,
              misses |-> misses, hits |-> h, level |-> LevelOf(h)]

\* the timer expires and keydance_timerfn runs from spin_lock to its return,
\* get_random_bytes delivering a byte of S
TimerRunFrom(S) ==
    /\ keydance_timer
    /\ Quiet
    /\ \E b \in S :
        LET r == TimerOutcome(b)
        IN  /\ lock_state' = r.lock_state
            /\ misses' = r.misses
            /\ hits' = r.hits
            /\ level' = r.level
            /\ IF r.stop
               THEN /\ game_running' = FALSE
                    /\ led_cmd' = 0
                    /\ keydance_timer' = FALSE
                    /\ UNCHANGED extras
               ELSE /\ extras' = 0
                    /\ led_cmd' = r.lock_state
                    /\ keydance_timer' = TRUE
                    /\ UNCHANGED game_running
    /\ fresh' = FALSE
    /\ rfresh' = FALSE
    /\ UNCHANGED <<boot_vars, xpc, keydance_lock, timer_vars, thread_vars, writer_vars, rpc, snap>>

TimerRun == TimerRunFrom(Bytes)

keydance_timerfn == TimerRun /\ UNCHANGED ticks

\* the bytes get_random_bytes delivers in SpecRestart: every LED off, or the
\* scroll lock LED lit
RestartBytes == {0, 1}

keydance_timerfn_restart == TimerRunFrom(RestartBytes) /\ UNCHANGED ticks

keydance_timerfn_bounded == ticks < MaxTicks /\ TimerRun /\ ticks' = ticks + 1

\* keydance_threadfn with i8042_read_data() delivering sc, from spin_lock_irq
\* to its return
ThreadRun(sc) ==
    /\ irq_wake
    /\ Quiet
    /\ IsExtra(sc, lock_state) => extras < MaxExtras
    /\ irq_wake' = FALSE
    /\ LET i == KeyIndex(sc)
       IN  IF game_running /\ i < 3
           THEN IF BitSet(lock_state, i)
                THEN /\ lock_state' = ClearBit(lock_state, i)
                     /\ led_cmd' = ClearBit(lock_state, i)
                     /\ UNCHANGED extras
                ELSE /\ extras' = CountExtra(extras)
                     /\ UNCHANGED <<lock_state, led_cmd>>
           ELSE UNCHANGED <<lock_state, led_cmd, extras>>
    /\ UNCHANGED <<boot_vars, xpc, game_running, misses, hits, level, keydance_lock,
                   keydance_timer, timer_vars, kpc, scancode, writer_vars,
                   reader_vars, ticks, fresh>>

keydance_threadfn == \E sc \in ScanCodes : ThreadRun(sc)

\* ------------------------------------------------------ specifications

\* the game: a process writing /proc/keydance-start, the timer and the keyboard,
\* one call at a time
Next ==
    \/ write_keydance_start(1)
    \/ keydance_timerfn
    \/ keydance_interrupt
    \/ keydance_threadfn

Spec == Init /\ [][Next]_vars

\* the armed timer expires, and a write that has set game_running goes on to
\* mod_timer
FairSpec == Spec /\ WF_vars(keydance_timerfn) /\ WF_vars(StartArm(1))

\* the game with no key pressed
NextNoKeys ==
    \/ write_keydance_start(1)
    \/ keydance_timerfn

SpecNoKeys == Init /\ [][NextNoKeys]_vars

\* two processes writing /proc/keydance-start, the timer and the module unload,
\* access by access
NextRace ==
    \/ write_keydance_start(1)
    \/ write_keydance_start(2)
    \/ TimerExpireBounded
    \/ TimerBody
    \/ keydance_exit

SpecRace == Init /\ [][NextRace]_vars

\* a process reading /proc/keydance-result while the game is started and played
NextStatus ==
    \/ write_keydance_start(1)
    \/ keydance_timerfn_bounded
    \/ keydance_result_proc_show

SpecStatus == Init /\ [][NextStatus]_vars

\* a process writing /proc/keydance-start, the timer and the keyboard, access by
\* access
NextKeys ==
    \/ write_keydance_start(1)
    \/ TimerExpireKeys
    \/ TimerBody
    \/ keydance_interrupt
    \/ ThreadBody

SpecKeys == Init /\ [][NextKeys]_vars

\* two processes writing /proc/keydance-start and the timer, with no key
\* pressed: games played to their end while a write is in progress
NextRestart ==
    \/ write_keydance_start(1)
    \/ write_keydance_start(2)
    \/ keydance_timerfn_restart

SpecRestart == Init /\ [][NextRestart]_vars

\* the module being loaded: keydance_init with led_test and its calls of
\* i8042_led_blink
NextBoot ==
    \/ keydance_init
    \/ led_test
    \/ i8042_led_blink

SpecBoot == InitBoot /\ [][NextBoot]_vars

\* a call of i8042_led_blink goes on: mdelay is a busy wait of the processor
\* that runs the call
FairSpecBoot == SpecBoot /\ WF_vars(i8042_led_blink)

\* ---------------------------------------------------------- properties

TypeOK ==
    /\ lock_state \in 0..LED_MASK
    /\ game_running \in BOOLEAN
    /\ extras \in 0..MaxExtras
    /\ misses \in 0..MISSES_TO_STOP
    /\ hits \in 0..(HITS_PER_LEVEL * LEVEL_TO_STOP)
    /\ level \in 0..LEVEL_TO_STOP
    /\ keydance_lock \in {"free", "timer", "thread"}

\* C1: whenever the game is not running, lock_state is 0 and the timer is not
\* pending.
C1_StoppedIsClear ==
    ~game_running => (lock_state = 0 /\ ~keydance_timer)

\* the positions at which the next step of a context reads or writes one of
\* lock_state, game_running, extras, misses, hits, level
TimerAccess == {"t_draw", "t_score", "t_misses", "t_level", "t_levelchk",
                "t_extras", "t_blink", "t_stop"}
ThreadAccess == {"k_key", "k_blink"}
StartAccess == {"w_lock_state", "w_blink", "w_extras", "w_misses", "w_hits",
                "w_level", "w_running"}
StatusAccess == {"r_stats"}

\* C2: a context that is about to read or write a field of the game state holds
\* keydance_lock.
C2_AccessUnderLock ==
    /\ tpc \in TimerAccess => keydance_lock = "timer"
    /\ kpc \in ThreadAccess => keydance_lock = "thread"
    /\ \A w \in Writers : wpc[w] \in StartAccess => keydance_lock = "start"
    /\ (rpc \in StatusAccess /\ ~SnapComplete) => keydance_lock = "status"

\* C3: a write to /proc/keydance-start that finds the game running skips the
\* block and returns count: the statistics, lock_state, the LEDs and the timer
\* are as they were, at the test and at the return.
C3_StartWhileRunningIsNoop ==
    [][\A w \in Writers :
        /\ (game_running /\ wpc[w] = "w_idle" /\ wpc'[w] # "w_idle")
              => /\ wpc'[w] = "w_skip"
                 /\ wcount'[w] \in 0..MaxCount
                 /\ UNCHANGED <<stats, keydance_timer, led_cmd>>
        /\ (wpc[w] = "w_skip" /\ wpc'[w] # "w_skip")
              => /\ wpc'[w] = "w_idle"
                 /\ UNCHANGED <<stats, keydance_timer, led_cmd>>
      ]_vars

\* a write of one byte has found a game in progress, with rounds already scored
C3_Witness ==
    /\ game_running
    /\ wpc[1] = "w_skip"
    /\ wcount[1] > 0
    /\ hits > 0
    /\ misses > 0

\* C4: while the game stays running, misses and level never decrease.
C4_MonotoneInSession ==
    [][(game_running /\ game_running') => (misses' >= misses /\ level' >= level)]_vars

\* C5: the level and the hits printed by one read of /proc/keydance-result
\* satisfy level = hits / HITS_PER_LEVEL.
C5_SnapshotConsistent ==
    SnapComplete => snap.level = snap.hits \div HITS_PER_LEVEL

\* C6: a read of /proc/keydance-result that begins after a write has started
\* the game and ends before the timer expires prints running, level 0, hits 0,
\* misses 0.
C6_StatusAfterBegin ==
    (SnapComplete /\ rfresh)
        => /\ snap.running = TRUE
           /\ snap.level = 0
           /\ snap.hits = 0
           /\ snap.misses = 0

\* such a read, in a game started after an earlier game ran to its end
C6_Witness ==
    /\ SnapComplete
    /\ rfresh
    /\ ticks >= MISSES_TO_STOP

\* C7 as stated: with no key pressed, every expiry of the timer in a running
\* game adds 1 to misses.
C7_EveryTickMisses ==
    [][(keydance_timerfn /\ game_running) => misses' = misses + 1]_vars

\* C7 as amended: with no key pressed, the timer expires only in a running
\* game; an expiry that finds an LED lit adds 1 to misses and leaves hits, an
\* expiry that finds none lit adds 1 to hits and leaves misses; the expiry that
\* brings misses to MISSES_TO_STOP clears game_running and does not arm the
\* timer again, and an expiry that leaves misses below it and level below
\* LEVEL_TO_STOP arms it again.
C7_TicksWithoutKeys ==
    [][keydance_timerfn =>
        /\ game_running
        /\ lock_state # 0 => (misses' = misses + 1 /\ hits' = hits)
        /\ lock_state = 0 => (misses' = misses /\ hits' = hits + 1)
        /\ misses' >= MISSES_TO_STOP => (~game_running' /\ ~keydance_timer')
        /\ (misses' < MISSES_TO_STOP /\ level' < LEVEL_TO_STOP)
              => (game_running' /\ keydance_timer')
      ]_vars

\* a game with no key pressed has ended on the miss limit
C7_Witness ==
    /\ ~game_running
    /\ ~keydance_timer
    /\ misses = MISSES_TO_STOP

\* C8: an expiry of the timer that finds every LED cleared and no extra press
\* adds 1 to hits and leaves misses; after every expiry level = hits /
\* HITS_PER_LEVEL; the game stops, with the timer not armed again, exactly at
\* the expiry at which level reaches LEVEL_TO_STOP.
C8_ClearedRoundsHit ==
    [][keydance_timerfn =>
        /\ level' = hits' \div HITS_PER_LEVEL
        /\ (game_running /\ lock_state = 0 /\ extras = 0)
              => /\ hits' = hits + 1
                 /\ misses' = misses
                 /\ game_running' = (level' < LEVEL_TO_STOP)
                 /\ keydance_timer' = (level' < LEVEL_TO_STOP)
      ]_vars

\* a game in which every round was cleared has ended on the level limit
C8_Witness ==
    /\ ~game_running
    /\ level = LEVEL_TO_STOP
    /\ hits = HITS_PER_LEVEL * LEVEL_TO_STOP
    /\ misses = 0

\* C9: with the armed timer expiring, a running game eventually stops.
C9_SessionEnds == game_running ~> ~game_running

\* a game with rounds hit and rounds missed has ended, the LEDs commanded off
C9_Witness ==
    /\ ~game_running
    /\ led_cmd = 0
    /\ hits > 0
    /\ misses > 0
    /\ (misses = MISSES_TO_STOP \/ level = LEVEL_TO_STOP)

\* C10: in a running game, a call of the irq thread that reads a scancode not
\* in dancekey_scancode_table adds 1 to extras.
C10_UnmappedKeyCounts ==
    [][\A sc \in ScanCodes :
        (ThreadRun(sc) /\ game_running /\ KeyIndex(sc) = 3)
            => extras' = extras + 1
      ]_vars

\* C11: in a running game, a call of the irq thread that reads the scancode of
\* a dance key whose LED is not lit adds 1 to extras and leaves lock_state, the
\* LEDs, the statistics and the timer; extras does not decrease until the
\* timer expires, and an expiry that finds extras set adds 1 to misses and
\* leaves hits, whatever lock_state is.
C11_ExtraPressForcesMiss ==
    [][/\ \A sc \in ScanCodes :
            (ThreadRun(sc) /\ game_running /\ IsExtra(sc, lock_state))
                => /\ extras' = extras + 1
                   /\ UNCHANGED <<lock_state, game_running, misses, hits, level,
                                  led_cmd, keydance_timer>>
       /\ (game_running /\ extras > 0 /\ extras' < extras) => keydance_timerfn
       /\ (keydance_timerfn /\ game_running /\ extras > 0)
            => (misses' = misses + 1 /\ hits' = hits)
      ]_vars

\* a dance key was pressed with its LED not lit, every LED of the round is
\* cleared, and the timer is about to expire
C11_Witness ==
    /\ game_running
    /\ keydance_timer
    /\ extras = 1
    /\ lock_state = 0
    /\ led_cmd = 0
    /\ misses = MISSES_TO_STOP - 1

\* C12: a keyboard interrupt wakes the irq thread only in a running game; a
\* call of the irq thread that finds the game stopped once it holds
\* keydance_lock goes straight to the unlock, and from there to its return,
\* and leaves lock_state, extras, hits, misses, level, game_running and the
\* LEDs as they were.
C12_KeyWhenStoppedIsNoop ==
    [][/\ (~irq_wake /\ irq_wake') => game_running
       /\ (kpc = "k_idle" /\ kpc' # "k_idle" /\ ~game_running)
            => (kpc' = "k_end" /\ scancode' = 0 /\ UNCHANGED <<stats, led_cmd>>)
       /\ (kpc = "k_end" /\ kpc' # "k_end")
            => (kpc' = "k_idle" /\ UNCHANGED <<stats, led_cmd>>)
      ]_vars

\* the thread was woken in a running game, the expiry that brought misses to
\* MISSES_TO_STOP stopped the game, and the thread then took the lock and
\* skipped the scancode
C12_Witness ==
    /\ kpc = "k_end"
    /\ keydance_lock = "thread"
    /\ scancode = 0
    /\ ~game_running
    /\ tpc = "t_idle"
    /\ misses = MISSES_TO_STOP

\* the positions of keydance_timerfn and keydance_threadfn between taking
\* keydance_lock and releasing it
TimerInside == tpc \notin {"t_idle", "t_lock"}
ThreadInside == kpc # "k_idle"

\* C13: a call of keydance_timerfn and a call of keydance_threadfn never
\* overlap between lock and unlock: while one holds keydance_lock the other
\* takes no step (but for the expiry that leaves the callback waiting for the
\* lock), so the expiry scores lock_state and extras either as the whole key
\* handling left them or as they were before it began.
C13_TickKeySerial ==
    [][/\ ~(TimerInside /\ ThreadInside)
       /\ TimerInside => (keydance_lock = "timer" /\ UNCHANGED <<kpc, scancode>>)
       /\ ThreadInside => /\ keydance_lock = "thread"
                           /\ (tpc' = tpc \/ (tpc = "t_idle" /\ tpc' = "t_lock"))
                           /\ UNCHANGED old_state
      ]_vars

\* the timer has expired and its callback waits for the lock while the thread,
\* having cleared the bit of a lit LED, is about to update the LEDs
C13_Witness ==
    /\ tpc = "t_lock"
    /\ kpc = "k_blink"
    /\ keydance_lock = "thread"
    /\ game_running
    /\ led_cmd # lock_state

\* C14: an expiry of the timer in a running game is scored on lock_state and
\* extras as the elapsed round left them: if lock_state # 0 or extras > 0 it
\* adds 1 to misses and leaves hits, otherwise it adds 1 to hits and leaves
\* misses; if the game is still running after it, extras is 0, lock_state is
\* a new pattern in 0..7 that is also sent to the LEDs, and the timer is armed.
C14_TickScoresLastRound ==
    [][(keydance_timerfn /\ game_running) =>
        /\ IF lock_state # 0 \/ extras > 0
           THEN misses' = misses + 1 /\ hits' = hits
           ELSE hits' = hits + 1 /\ misses' = misses
        /\ game_running' => /\ extras' = 0
                             /\ lock_state' \in 0..LED_MASK
                             /\ led_cmd' = lock_state'
                             /\ keydance_timer'
      ]_vars

\* a round of a game that has scored a hit and a miss before, with the LED of
\* key 2 still lit (0b010: drawn so, or left of 0b011 by key 1) and the timer
\* about to expire
C14_Witness ==
    /\ game_running
    /\ keydance_timer
    /\ lock_state = 2
    /\ led_cmd = 2
    /\ extras = 0
    /\ hits > 0
    /\ misses > 0

\* C15: once keydance_exit has returned, game_running is false, the timer is
\* not pending and its callback is not running, the irq thread is neither
\* woken nor running, and the LEDs were last commanded off.
C15_ShutdownQuiesces ==
    xpc = "x_done"
        => /\ ~game_running
           /\ ~keydance_timer
           /\ tpc = "t_idle"
           /\ ~irq_wake
           /\ kpc = "k_idle"
           /\ led_cmd = 0

\* the calls of i8042_led_blink in progress.  A call lasts from 3 to 11 ms
\* (i8042.h, DELAY); the step that leaves one of these positions is the
\* return of the call, so a context at such a position is inside the call.
BlinkCalls ==
    (IF tpc \in {"t_blink", "t_stopblink"} THEN 1 ELSE 0)
    + (IF kpc = "k_blink" THEN 1 ELSE 0)
    + Cardinality({w \in Writers : wpc[w] = "w_blink"})
    + (IF xpc = "x_blink" THEN 1 ELSE 0)

\* C17: at most one context at a time is inside i8042_led_blink.
C17_BlinkSerialized == BlinkCalls <= 1

\* C18: step_time(l) is positive and greater than step_time(l + 1) for every
\* level l below LEVEL_TO_STOP, and every mod_timer of the module, in
\* write_keydance_start and in keydance_timerfn, is called with level below
\* LEVEL_TO_STOP and so with a positive interval.
C18_IntervalsPositive ==
    /\ [](\A l \in 0..(LEVEL_TO_STOP - 1) :
            step_time(l) > 0 /\ step_time(l) > step_time(l + 1))
    /\ [][((\E w \in Writers : StartArm(w)) \/ (TimerRunFrom(Bytes) /\ keydance_timer'))
            => (level' < LEVEL_TO_STOP /\ step_time(level') > 0)
         ]_vars

\* C20: misses, level and hits never exceed the values at which the game
\* stops, and lock_state is a pattern of the three LEDs.
C20_CountersWithinLimits ==
    /\ misses <= MISSES_TO_STOP
    /\ level <= LEVEL_TO_STOP
    /\ hits <= HITS_PER_LEVEL * LEVEL_TO_STOP
    /\ lock_state \in 0..LED_MASK

\* C16: when keydance_init returns an error it holds none of the irq, the
\* start entry and the result entry.
C16_FailedInitHoldsNothing ==
    (ipc = "i_ret" /\ init_ret # 0) => held = <<>>

\* C19: a call of i8042_led_blink makes at most DELAY_LIMIT + 1 calls of
\* mdelay(1), whatever the status register reads, and returns: the value
\* returned is the number of calls of mdelay(1) it made, from 3 to
\* DELAY_LIMIT + 1.
C19_BlinkTerminates ==
    /\ [](mdelays <= DELAY_LIMIT + 1)
    /\ [](bpc = "b_ret" => (blink_ret = mdelays /\ blink_ret \in 3..(DELAY_LIMIT + 1)))
    /\ (bpc \notin {"b_idle", "b_ret"}) ~> (bpc = "b_ret")

\* the input buffer stayed full: the call gave up at the eleventh mdelay(1)
\* with the LED byte not sent
C19_Witness ==
    /\ bpc = "b_ret"
    /\ blink_ret = DELAY_LIMIT + 1
    /\ mdelays = DELAY_LIMIT + 1
    /\ led_cmd # state

====
